---- MODULE Spec2Model ----
(***************************************************************************)
(* Console bring-up sequence of src/main.c: main() resets the console,    *)
(* binds the font, sets the video-memory layout and the colour pair,      *)
(* draws two strings, enables the display and idles on WaitForVBlank.     *)
(*                                                                         *)
(* The control flow, the order of the calls and every argument are taken  *)
(* from main.c.  The effect of each library primitive on the console      *)
(* state (snes.h is not part of the sources) follows the description of   *)
(* the primitives in the specification, sections 4.1 and 6.               *)
(* What the library fixes and main.c does not show (tile-map dimensions,  *)
(* font footprint, power-on contents of video memory) is chosen           *)
(* nondeterministically in Init.                                           *)
(***************************************************************************)
EXTENDS Integers, Sequences, FiniteSets, TLC

VARIABLES
    pc,             \* line of main() that executes next ("wait": suspended in WaitForVBlank)
    idx,            \* characters of the current consoleDrawText already written
    font,           \* font bound to the text layer (NoFont: none)
    textVramBGAdr,  \* base address set by consoleSetTextVramBGAdr
    textVramAdr,    \* base address set by consoleSetTextVramAdr
    textOffset,     \* tile-index offset set by consoleSetTextOffset
    fgCol,          \* active foreground colour
    bgCol,          \* active background colour
    tileMap,        \* set of cells [col, row, tile, fg, bg], one per coordinate
    screenOn,       \* display enabled
    mapW,           \* tile-map width in cells (fixed by the library)
    mapH,           \* tile-map height in cells (fixed by the library)
    fontWords,      \* video-memory words taken by the font's tiles
    frames,         \* history: vertical blanks consumed by WaitForVBlank
    trace,          \* history: the library calls made so far, in order
    assigns,        \* history: how often each configuration value was assigned
    written         \* history: cells written by each consoleDrawText call

vars == <<pc, idx, font, textVramBGAdr, textVramAdr, textOffset, fgCol, bgCol,
          tileMap, screenOn, mapW, mapH, fontWords, frames, trace, assigns, written>>

config == <<font, textVramBGAdr, textVramAdr, textOffset, fgCol, bgCol>>

history == <<frames, trace, assigns, written>>

geometry == <<mapW, mapH, fontWords>>

-----------------------------------------------------------------------------
(* Bounds of the model *)

MaxFrames == 3

MaxGarbage == 3

-----------------------------------------------------------------------------
(* Arguments of the calls in main.c *)

\* consoleInitText(0, 16, &snesfont)
FontBgArg == 0

FontSizeArg == 16

\* no font bound
NoFont == [bg |-> 0, size |-> 0, gfx |-> "none"]

FontArg == [bg |-> FontBgArg, size |-> FontSizeArg, gfx |-> "snesfont"]

\* consoleSetTextVramBGAdr(0x6800)
TextVramBGAdrArg == 26624

\* variant: the second base address 0x6400, inside reach of a 64x64 map
TextVramAdrNear == 25 * 1024

\* consoleSetTextVramAdr(0x3000)
TextVramAdrArg == 12288

\* consoleSetTextOffset(0x0100)
TextOffsetArg == 256

\* RGB15(r, g, b): the 15-bit colour word, five bits per component
RGB15(r, g, b) == (r % 32) + (g % 32) * 32 + (b % 32) * 1024

\* consoleSetTextCol(RGB15(31,31,0), RGB15(0,0,0))
FgColArg == RGB15(31, 31, 0)

BgColArg == RGB15(0, 0, 0)

\* variant: the first draw starts at column 25
Col1Far == 5 + 20

\* consoleDrawText(5, 10, "Hello World!")
Col1 == 5

Row1 == 10

Str1 == <<72, 101, 108, 108, 111, 32, 87, 111, 114, 108, 100, 33>>

\* consoleDrawText(3, 12, "PVSnesLib Test!")
Col2 == 3

\* variant: the second draw on the row of the first
Row2Same == 5 + 5

Row2 == 12

\* variant: the second string without its last character
Str2Short == <<80, 86, 83, 110, 101, 115, 76, 105, 98, 32, 84, 101, 115, 116>>

Str2 == <<80, 86, 83, 110, 101, 115, 76, 105, 98, 32, 84, 101, 115, 116, 33>>

\* variant: a loop condition that is false
LoopCondFalse == 0 # 0

\* while(1)
LoopCond == 1 # 0

-----------------------------------------------------------------------------
(* Console hardware as the library primitives see it *)

\* tile-map dimensions the background layer supports
MapDims == {32, 64}

\* words of video memory per glyph tile, and glyph counts of a font
WordsPerGlyph == {8, 16}

GlyphCounts == {96, 128, 256}

\* a cell left in video memory before the reset
GarbageCell(i) == [col |-> (5 * i) % 32, row |-> (10 * i) % 32,
                   tile |-> i, fg |-> i, bg |-> 0]

GarbageCells == {GarbageCell(i) : i \in 1..MaxGarbage}

ConfigNames == {"font", "textVramBGAdr", "textVramAdr", "textOffset", "textCol"}

\* the cell of map m at (c, r) replaced by tile t in colours (f, b)
PutCell(m, c, r, t, f, b) ==
    {x \in m : ~(x.col = c /\ x.row = r)}
        \cup {[col |-> c, row |-> r, tile |-> t, fg |-> f, bg |-> b]}

\* tile index of character code ch under tile-index offset off
Tile(ch, off) == ch + off

\* the regions of video memory the layout assigns
MapWords == mapW * mapH

AttrRegion == [lo |-> textVramBGAdr, hi |-> textVramBGAdr + fontWords]

MapRegion == [lo |-> textVramAdr, hi |-> textVramAdr + MapWords]

-----------------------------------------------------------------------------
(* Control flow of main() *)

\* variant: the layout settings precede the font binding
NextLineLayoutFirst(l) ==
    CASE l = "L4"  -> "L8"
      [] l = "L8"  -> "L9"
      [] l = "L9"  -> "L10"
      [] l = "L10" -> "L6"
      [] l = "L6"  -> "L12"
      [] l = "L12" -> "L14"
      [] l = "L14" -> "L15"
      [] l = "L15" -> "L17"
      [] l = "L17" -> "L19"

\* variant: the display is enabled before the draws
NextLineScreenFirst(l) ==
    CASE l = "L4"  -> "L6"
      [] l = "L6"  -> "L8"
      [] l = "L8"  -> "L9"
      [] l = "L9"  -> "L10"
      [] l = "L10" -> "L12"
      [] l = "L12" -> "L17"
      [] l = "L17" -> "L14"
      [] l = "L14" -> "L15"
      [] l = "L15" -> "L19"

\* variant: the colour pair is set between the two draws
NextLineColLate(l) ==
    CASE l = "L4"  -> "L6"
      [] l = "L6"  -> "L8"
      [] l = "L8"  -> "L9"
      [] l = "L9"  -> "L10"
      [] l = "L10" -> "L14"
      [] l = "L14" -> "L12"
      [] l = "L12" -> "L15"
      [] l = "L15" -> "L17"
      [] l = "L17" -> "L19"

\* the statement that follows the call on line l
NextLine(l) ==
    CASE l = "L4"  -> "L6"
      [] l = "L6"  -> "L8"
      [] l = "L8"  -> "L9"
      [] l = "L9"  -> "L10"
      [] l = "L10" -> "L12"
      [] l = "L12" -> "L14"
      [] l = "L14" -> "L15"
      [] l = "L15" -> "L17"
      [] l = "L17" -> "L19"

Called(name) == trace' = Append(trace, name)

Assigned(name) == assigns' = [assigns EXCEPT ![name] = @ + 1]

Init ==
    /\ pc = "L4"
    /\ idx = 0
    /\ font = NoFont
    /\ textVramBGAdr = 0
    /\ textVramAdr = 0
    /\ textOffset \in 0..MaxGarbage
    /\ fgCol \in 0..MaxGarbage
    /\ bgCol = 0
    /\ tileMap \in SUBSET GarbageCells
    /\ screenOn = FALSE
    /\ mapW \in MapDims
    /\ mapH \in MapDims
    /\ fontWords \in {g * w : g \in GlyphCounts, w \in WordsPerGlyph}
    /\ frames = 0
    /\ trace = <<>>
    /\ assigns = [n \in ConfigNames |-> 0]
    /\ written = [k \in 1..2 |-> {}]

\* line 4: consoleInit()
consoleInit ==
    /\ pc = "L4"
    /\ pc' = NextLine("L4")
    /\ font' = NoFont
    /\ textVramBGAdr' = 0
    /\ textVramAdr' = 0
    /\ textOffset' = 0
    /\ fgCol' = 0
    /\ bgCol' = 0
    /\ tileMap' = {}
    /\ screenOn' = FALSE
    /\ Called("consoleInit")
    /\ UNCHANGED <<idx, geometry, frames, assigns, written>>

\* line 6: consoleInitText(0, 16, &snesfont)
consoleInitText ==
    /\ pc = "L6"
    /\ pc' = NextLine("L6")
    /\ font' = FontArg
    /\ Called("consoleInitText")
    /\ Assigned("font")
    /\ UNCHANGED <<idx, textVramBGAdr, textVramAdr, textOffset, fgCol, bgCol,
                   tileMap, screenOn, geometry, frames, written>>

\* line 8: consoleSetTextVramBGAdr(0x6800)
consoleSetTextVramBGAdr ==
    /\ pc = "L8"
    /\ pc' = NextLine("L8")
    /\ textVramBGAdr' = TextVramBGAdrArg
    /\ Called("consoleSetTextVramBGAdr")
    /\ Assigned("textVramBGAdr")
    /\ UNCHANGED <<idx, font, textVramAdr, textOffset, fgCol, bgCol,
                   tileMap, screenOn, geometry, frames, written>>

\* line 9: consoleSetTextVramAdr(0x3000)
consoleSetTextVramAdr ==
    /\ pc = "L9"
    /\ pc' = NextLine("L9")
    /\ textVramAdr' = TextVramAdrArg
    /\ Called("consoleSetTextVramAdr")
    /\ Assigned("textVramAdr")
    /\ UNCHANGED <<idx, font, textVramBGAdr, textOffset, fgCol, bgCol,
                   tileMap, screenOn, geometry, frames, written>>

\* line 10: consoleSetTextOffset(0x0100)
consoleSetTextOffset ==
    /\ pc = "L10"
    /\ pc' = NextLine("L10")
    /\ textOffset' = TextOffsetArg
    /\ Called("consoleSetTextOffset")
    /\ Assigned("textOffset")
    /\ UNCHANGED <<idx, font, textVramBGAdr, textVramAdr, fgCol, bgCol,
                   tileMap, screenOn, geometry, frames, written>>

\* line 12: consoleSetTextCol(RGB15(31,31,0), RGB15(0,0,0))
consoleSetTextCol ==
    /\ pc = "L12"
    /\ pc' = NextLine("L12")
    /\ fgCol' = FgColArg
    /\ bgCol' = BgColArg
    /\ Called("consoleSetTextCol")
    /\ Assigned("textCol")
    /\ UNCHANGED <<idx, font, textVramBGAdr, textVramAdr, textOffset,
                   tileMap, screenOn, geometry, frames, written>>

\* consoleDrawText(x, y, s) on line l, the k-th draw: one character per step,
\* left to right from (x, y), in the active colour pair and tile-index offset
DrawText(l, k, x, y, s) ==
    /\ pc = l
    /\ idx < Len(s)
    /\ tileMap' = PutCell(tileMap, x + idx, y, Tile(s[idx + 1], textOffset), fgCol, bgCol)
    /\ written' = [written EXCEPT ![k] = @ \cup
                     {[col |-> x + idx, row |-> y, tile |-> Tile(s[idx + 1], textOffset)]}]
    /\ trace' = IF idx = 0 THEN Append(trace, "consoleDrawText") ELSE trace
    /\ idx' = IF idx + 1 = Len(s) THEN 0 ELSE idx + 1
    /\ pc' = IF idx + 1 = Len(s) THEN NextLine(l) ELSE pc
    /\ UNCHANGED <<config, screenOn, geometry, frames, assigns>>

\* line 14: consoleDrawText(5, 10, "Hello World!")
consoleDrawText1 == DrawText("L14", 1, Col1, Row1, Str1)

\* line 15: consoleDrawText(3, 12, "PVSnesLib Test!")
consoleDrawText2 == DrawText("L15", 2, Col2, Row2, Str2)

\* line 17: setScreenOn()
setScreenOn ==
    /\ pc = "L17"
    /\ pc' = NextLine("L17")
    /\ screenOn' = TRUE
    /\ Called("setScreenOn")
    /\ UNCHANGED <<idx, config, tileMap, geometry, frames, assigns, written>>

\* line 19: while(1); line 22 (return 0) follows a false condition
LoopTest ==
    /\ pc = "L19"
    /\ pc' = IF LoopCond THEN "L20" ELSE "L22"
    /\ UNCHANGED <<idx, config, tileMap, screenOn, geometry, history>>

\* variant: the loop body sets the colour pair again before it waits
WaitForVBlankRecolour ==
    /\ pc = "L20"
    /\ frames < MaxFrames
    /\ pc' = "wait"
    /\ fgCol' = BgColArg
    /\ bgCol' = FgColArg
    /\ Called("WaitForVBlank")
    /\ UNCHANGED <<idx, font, textVramBGAdr, textVramAdr, textOffset,
                   tileMap, screenOn, geometry, frames, assigns, written>>

\* line 20: WaitForVBlank() suspends until the next vertical blank
WaitForVBlank ==
    /\ pc = "L20"
    /\ frames < MaxFrames
    /\ pc' = "wait"
    /\ Called("WaitForVBlank")
    /\ UNCHANGED <<idx, config, tileMap, screenOn, geometry, frames, assigns, written>>

\* variant: the loop encloses setScreenOn, the wait returns to line 17
VBlankToScreenOn ==
    IF pc = "wait"
    THEN /\ pc' = "L17"
         /\ frames' = frames + 1
         /\ UNCHANGED <<idx, config, tileMap, screenOn, geometry, trace, assigns, written>>
    ELSE UNCHANGED vars

\* the vertical-blank signal: resumes a suspended WaitForVBlank, which returns
\* to the loop test; outside the wait the signal is not consumed
VBlank ==
    IF pc = "wait"
    THEN /\ pc' = "L19"
         /\ frames' = frames + 1
         /\ UNCHANGED <<idx, config, tileMap, screenOn, geometry, trace, assigns, written>>
    ELSE UNCHANGED vars

Next ==
    \/ consoleInit
    \/ consoleInitText
    \/ consoleSetTextVramBGAdr
    \/ consoleSetTextVramAdr
    \/ consoleSetTextOffset
    \/ consoleSetTextCol
    \/ consoleDrawText1
    \/ consoleDrawText2
    \/ setScreenOn
    \/ LoopTest
    \/ WaitForVBlank
    \/ VBlank

Spec == Init /\ [][Next]_vars

\* main() is the only thread and runs whenever it can; vertical blanks recur
FairSpec == Spec /\ WF_vars(Next)

-----------------------------------------------------------------------------
(* Terms of the properties *)

Range(s) == {s[i] : i \in 1..Len(s)}

Done(name) == name \in Range(trace)

\* the bring-up calls in the order the contract requires
BootOrder == <<"consoleInit", "consoleInitText", "consoleSetTextVramBGAdr",
               "consoleSetTextVramAdr", "consoleSetTextOffset", "consoleSetTextCol",
               "consoleDrawText", "consoleDrawText", "setScreenOn">>

\* the idle loop has been entered
Idling == pc \in {"L20", "wait"} \/ (pc = "L19" /\ frames > 0)

\* both draws have returned
DrawsDone == pc \in {"L17", "L19", "L20", "wait", "L22"}

\* what the display shows
Visible == IF screenOn THEN tileMap ELSE {}

\* the two strings and their places, as the contract states them
Hello == <<72, 101, 108, 108, 111, 32, 87, 111, 114, 108, 100, 33>>

Pvsnes == <<80, 86, 83, 110, 101, 115, 76, 105, 98, 32, 84, 101, 115, 116, 33>>

\* the first n cells of string s drawn from (c, r) with tile-index offset 0x0100
RunCells(s, c, r, n) ==
    {[col |-> c + i - 1, row |-> r, tile |-> s[i] + 256] : i \in 1..n}

\* the same cells in foreground RGB(31,31,0) = 0x03FF and background RGB(0,0,0)
Coloured(cells) ==
    {[col |-> x.col, row |-> x.row, tile |-> x.tile, fg |-> 1023, bg |-> 0] : x \in cells}

ExpectedMap ==
    Coloured(RunCells(Hello, 5, 10, 12)) \cup Coloured(RunCells(Pvsnes, 3, 12, 15))

Coords(cells) == {<<x.col, x.row>> : x \in cells}

Uncoloured(cells) == {[col |-> x.col, row |-> x.row, tile |-> x.tile] : x \in cells}

\* phases of the bring-up: 0 uninitialized, 1 configured, 2 displaying, 3 idling
PhaseRank ==
    IF Idling THEN 3
    ELSE IF screenOn THEN 2
    ELSE IF Done("consoleInit") THEN 1
    ELSE 0

-----------------------------------------------------------------------------
(* Properties *)

\* C1: the calls made so far are always a prefix of the required order
\* (reset, font binding, the three layout settings, colour, the two draws,
\* display enable), each once, followed only by waits of the idle loop; the
\* idle loop is entered with all nine made.
C1_BootOrder ==
    /\ \A i \in 1..Len(trace) :
          IF i <= Len(BootOrder) THEN trace[i] = BootOrder[i]
          ELSE trace[i] = "WaitForVBlank"
    /\ Idling => Len(trace) >= Len(BootOrder)

C1_Witness == pc = "wait" /\ frames = 1 /\ Len(trace) = Len(BootOrder) + 2

\* C2: as long as setScreenOn has not been executed the display is off and
\* nothing is visible, however many characters have been drawn; once it has
\* been executed the display is on and shows the tile map.
C2_DisplayGate ==
    /\ ~Done("setScreenOn") => (~screenOn /\ Visible = {})
    /\ pc \in {"L4", "L6", "L8", "L9", "L10", "L12", "L14", "L15", "L17"}
          => ~Done("setScreenOn")
    /\ Done("setScreenOn") => (screenOn /\ Visible = tileMap)

C2_Witness ==
    /\ pc = "L17"
    /\ Cardinality(tileMap) = 27
    /\ ~screenOn
    /\ Visible = {}

\* C3: the return statement is never reached, and a step taken in the idle
\* loop stays in the idle loop, makes no call other than WaitForVBlank and
\* leaves font, layout, colour pair, tile map and display flag unchanged.
C3_IdleForever ==
    [][/\ pc' # "L22"
       /\ Idling =>
            /\ Idling'
            /\ UNCHANGED <<config, tileMap, screenOn>>
            /\ trace' \in {trace, Append(trace, "WaitForVBlank")}]_vars

C3_Witness == pc = "L20" /\ frames = 2 /\ screenOn

\* C4: every execution reaches, and then stays in, the idle loop with the
\* display enabled, the layout and colour registers at the literal values
\* and a tile map that holds exactly the two text runs.
C4_EndToEnd ==
    <>[](/\ Idling
         /\ screenOn
         /\ textVramBGAdr = 26624
         /\ textVramAdr = 12288
         /\ textOffset = 256
         /\ tileMap = ExpectedMap)

C4_Witness ==
    /\ pc = "wait"
    /\ screenOn
    /\ tileMap = ExpectedMap
    /\ Cardinality(tileMap) = 27

\* C5: the cells written by the second draw are disjoint from those written
\* by the first, and once both draws have returned both strings are in the
\* tile map.
C5_DrawsDisjoint ==
    /\ Coords(written[1]) \cap Coords(written[2]) = {}
    /\ DrawsDone =>
          /\ RunCells(Hello, 5, 10, 12) \subseteq Uncoloured(tileMap)
          /\ RunCells(Pvsnes, 3, 12, 15) \subseteq Uncoloured(tileMap)

C5_Witness ==
    /\ pc = "L17"
    /\ Cardinality(written[1]) = 12
    /\ Cardinality(written[2]) = 15

\* C6: a cell that a step writes carries the colour pair active at that
\* step, a step that changes the colour pair changes no cell, and after the
\* reset every cell of the tile map carries foreground RGB(31,31,0) and
\* background RGB(0,0,0).
C6_Colours ==
    /\ [](pc # "L4" => \A x \in tileMap : x.fg = 1023 /\ x.bg = 0)
    /\ [][/\ \A x \in tileMap' : x \in tileMap \/ (x.fg = fgCol /\ x.bg = bgCol)
          /\ (pc # "L4" /\ <<fgCol, bgCol>>' # <<fgCol, bgCol>>) => tileMap' = tileMap]_vars

C6_Witness ==
    /\ pc = "L17"
    /\ Cardinality(tileMap) = 27
    /\ \A x \in tileMap : x.fg = 1023 /\ x.bg = 0

\* C7: once both base addresses are set, the attribute/character data
\* region based at 0x6800 and the tile-map region based at 0x3000 do not
\* overlap, for every supported font footprint and map size.
C7_NoOverlap ==
    pc \notin {"L4", "L6", "L8", "L9"} =>
        /\ AttrRegion.lo = 26624
        /\ MapRegion.lo = 12288
        /\ AttrRegion.hi > AttrRegion.lo
        /\ MapRegion.hi > MapRegion.lo
        /\ (MapRegion.hi <= AttrRegion.lo \/ AttrRegion.hi <= MapRegion.lo)

C7_Witness == pc = "L10" /\ mapW = 64 /\ mapH = 64 /\ fontWords = 4096

\* C8: the phase never goes back and never skips a phase, and every
\* execution reaches idling and stays there.
C8_Phases ==
    /\ [][PhaseRank' \in {PhaseRank, PhaseRank + 1}]_vars
    /\ <>[](PhaseRank = 3)

C8_Witness == PhaseRank = 3 /\ pc = "L19" /\ frames = 1

\* C9: each configuration value is assigned at most once, all are assigned
\* when startup is over, an assigned value never changes afterwards, and the
\* tile map never changes once both draws have returned.
C9_WriteOnce ==
    /\ [](\A n \in ConfigNames :
             /\ assigns[n] <= 1
             /\ pc \in {"L14", "L15", "L17", "L19", "L20", "wait"} => assigns[n] = 1)
    /\ [][/\ assigns["font"] = 1 => font' = font
          /\ assigns["textVramBGAdr"] = 1 => textVramBGAdr' = textVramBGAdr
          /\ assigns["textVramAdr"] = 1 => textVramAdr' = textVramAdr
          /\ assigns["textOffset"] = 1 => textOffset' = textOffset
          /\ assigns["textCol"] = 1 => <<fgCol, bgCol>>' = <<fgCol, bgCol>>
          /\ DrawsDone => tileMap' = tileMap]_vars

C9_Witness ==
    /\ pc = "wait"
    /\ frames = 1
    /\ \A n \in ConfigNames : assigns[n] = 1
    /\ font = [bg |-> 0, size |-> 16, gfx |-> "snesfont"]

\* C10: while a draw runs it has written exactly the first idx cells of its
\* row from its start column, each the character's code plus 0x0100; when
\* it has returned it has written exactly the cells of its string; every
\* written cell lies inside the map and neither string runs past the width.
C10_DrawInBounds ==
    /\ written[1] = RunCells(Hello, 5, 10,
                       IF pc \in {"L4", "L6", "L8", "L9", "L10", "L12"} THEN 0
                       ELSE IF pc = "L14" THEN idx ELSE 12)
    /\ written[2] = RunCells(Pvsnes, 3, 12,
                       IF DrawsDone THEN 15 ELSE IF pc = "L15" THEN idx ELSE 0)
    /\ \A k \in 1..2 : \A x \in written[k] :
          x.col >= 0 /\ x.col < mapW /\ x.row >= 0 /\ x.row < mapH
    /\ 5 + 12 <= mapW
    /\ 3 + 15 <= mapW

C10_Witness == pc = "L15" /\ idx = 7 /\ mapW = 32 /\ Cardinality(written[2]) = 7

====
